---- MODULE Spec2Model ----
(***************************************************************************)
(* Search / pagination controller and AI assist controller of             *)
(* Commons-Explorer (src/index.tsx).                                       *)
(*                                                                         *)
(* The program is single-threaded and event driven.  Every action below is *)
(* one run-to-completion step of the JavaScript event loop: a UI handler   *)
(* up to its first await, or the continuation that runs when the awaited   *)
(* network request settles.                                                *)
(*                                                                         *)
(* Strings are sequences of one-character strings, so that                 *)
(* String.prototype.trim can be computed and not assumed.                  *)
(***************************************************************************)
EXTENDS Integers, Sequences, FiniteSets

VARIABLES
    currentQuery,        \* let currentQuery            (line 40)
    gsroffset,           \* let gsroffset               (line 41)
    isLoading,           \* let isLoading               (line 42)
    hasMore,             \* let hasMore                 (line 43)
    results,             \* children of resultsContainer (line 13)
    noResultsShown,      \* noResultsEl.style.display = 'block'   (line 14)
    initialLoaderShown,  \* initialLoader.style.display = 'flex'  (line 15)
    domLoaded,           \* DOMContentLoaded has been dispatched  (line 306)
    requests,            \* log of the axios.get page requests issued so far
    pending,             \* indices into requests of the requests not yet settled
    cursorOf,            \* the gsrsearch of the request whose response gave gsroffset
    lastCall,            \* the handler / continuation that ran in the last step
    prevCall,            \* the one that ran in the step before
    currentImageData,    \* let currentImageData        (line 45)
    epoch,               \* number of openLightbox / closeLightbox calls so far
    lightboxShown,       \* lightbox.classList.contains('show')  (line 18)
    panes,               \* children of storyDisplay, analysisDisplay, chatHistory
    aiLoaderDisplay,     \* aiLoader.style.display               (line 26)
    aiClient,            \* let aiClient                (line 44)
    gens,                \* the calls of generateAiContent made so far
    lastAi               \* the AI handler / continuation that ran in the last step

pagVars == <<currentQuery, gsroffset, isLoading, hasMore, results, noResultsShown,
             initialLoaderShown, domLoaded, requests, pending, cursorOf,
             lastCall, prevCall>>

aiVars == <<currentImageData, epoch, lightboxShown, panes, aiLoaderDisplay,
            aiClient, gens, lastAi>>

vars == <<pagVars, aiVars>>

(***************************************************************************)
(* Bounds of the model.                                                    *)
(***************************************************************************)
MaxLen == 1          \* longest text typed into the search box
MaxRequests == 2     \* page requests issued in one behaviour
MaxPageId == 1       \* page ids a response can carry are 1..MaxPageId
MaxPages == 1        \* continuation tokens are BATCH_SIZE * (1..MaxPages)
MaxEpochs == 2       \* openLightbox / closeLightbox calls in one behaviour
MaxGens == 2         \* generateAiContent calls that pass line 89
MaxChunks == 2       \* chunks one response stream delivers

(***************************************************************************)
(* Program constants.                                                      *)
(***************************************************************************)
BATCH_SIZE == 24

\* handleSearch(undefined, 'Landscape photography')
InitialQuery ==
    <<"L","a","n","d","s","c","a","p","e"," ",
      "p","h","o","t","o","g","r","a","p","h","y">>

Alphabet == {" ", "a"}

\* what searchInput.value can hold when the form is submitted
InputValues ==
    UNION {[1..n -> Alphabet] : n \in 0..MaxLen} \cup {InitialQuery}

PageIds == 1..MaxPageId

\* a continuation token of the search API is a positive offset
Tokens == {BATCH_SIZE * k : k \in 1..MaxPages}

(***************************************************************************)
(* String.prototype.trim                                                   *)
(***************************************************************************)
RECURSIVE TrimStart(_)
TrimStart(s) ==
    IF s # <<>> /\ Head(s) = " " THEN TrimStart(Tail(s)) ELSE s

RECURSIVE TrimEnd(_)
TrimEnd(s) ==
    IF s # <<>> /\ s[Len(s)] = " " THEN TrimEnd(SubSeq(s, 1, Len(s) - 1)) ELSE s

Trim(s) == TrimEnd(TrimStart(s))

(***************************************************************************)
(* What a settled axios.get can deliver.                                   *)
(*   kind "error": the promise rejects (transport failure), or             *)
(*                 response.data is null so that line 248 throws.          *)
(*   kind "ok"   : response.data is an object;                             *)
(*       hasQuery : response.data.query is present                         *)
(*       pages    : the keys of response.data.query.pages.  The keys are   *)
(*                  page ids, i.e. integer-like property names of a        *)
(*                  JavaScript object                                      *)
(*       bad      : the pages without imageinfo (makeImageCard throws)     *)
(*       cont     : response.data.continue.gsroffset, 0 when               *)
(*                  response.data.continue is absent                       *)
(*   A body that is not JSON is left a string by axios: it behaves as      *)
(*   kind "ok" with hasQuery = FALSE and cont = 0.                         *)
(***************************************************************************)
NoResponse ==
    [kind |-> "none", hasQuery |-> FALSE, pages |-> {}, bad |-> {}, cont |-> 0]

ErrorResponse ==
    [kind |-> "error", hasQuery |-> FALSE, pages |-> {}, bad |-> {}, cont |-> 0]

Responses ==
    {ErrorResponse}
    \cup {[kind |-> "ok", hasQuery |-> FALSE, pages |-> {}, bad |-> {}, cont |-> c] :
             c \in {0} \cup Tokens}
    \cup {r \in [kind : {"ok"}, hasQuery : {TRUE}, pages : SUBSET PageIds,
                 bad : SUBSET PageIds, cont : {0} \cup Tokens] :
             r.bad \subseteq r.pages}

(***************************************************************************)
(* Object.values(pages): integer-like keys are enumerated in ascending     *)
(* numeric order.                                                          *)
(***************************************************************************)
RECURSIVE ObjectValues(_)
ObjectValues(pages) ==
    IF pages = {} THEN <<>>
    ELSE LET least == CHOOSE p \in pages : \A q \in pages : p <= q
         IN <<least>> \o ObjectValues(pages \ {least})

\* makeImageCard(page); req is the request whose response carried the page
makeImageCard(page, req) == [page |-> page, req |-> req]

\* Object.values(pages).map(page => makeImageCard(page))
Items(pages, req) ==
    LET ps == ObjectValues(pages)
    IN [i \in 1..Len(ps) |-> makeImageCard(ps[i], req)]

(***************************************************************************)
(* Record of the step just taken.                                          *)
(*   op     : "init", "search", "loadNextPage" or "settle"                 *)
(*   query  : search: the query handleSearch computed;                     *)
(*            settle: the gsrsearch of the settled request                 *)
(*   offset : settle: the gsroffset of the settled request                 *)
(*   fresh  : search: the query passed the guard of line 277               *)
(*   issued : number of page requests the step issued                      *)
(*   resp   : settle: what the request delivered                           *)
(***************************************************************************)
Call(op, query, offset, fresh, issued, resp) ==
    [op |-> op, query |-> query, offset |-> offset, fresh |-> fresh,
     issued |-> issued, resp |-> resp]

NoCall == Call("init", <<>>, 0, FALSE, 0, NoResponse)

\* what is remembered of the step before the last one
Brief(call) == [call EXCEPT !.resp = NoResponse]

(***************************************************************************)
(* State of the AI assist controller.                                      *)
(*                                                                         *)
(* An image is named by the id of its page; info.url and the title are     *)
(* functions of the page.  The base64 data and the MIME type that          *)
(* imageUrlToBase64(url) resolves to are named by the url they were        *)
(* fetched from; 0 stands for undefined.                                   *)
(***************************************************************************)
\* currentImageData = null
NullImage == [url |-> 0, title |-> 0, mimeType |-> 0, base64 |-> 0]

\* line 173: { url: data.url, title: data.title }
ImageData(card) ==
    [url |-> card.page, title |-> card.page, mimeType |-> 0, base64 |-> 0]

Targets == {"storyDisplay", "analysisDisplay", "chatHistory"}

(***************************************************************************)
(* A child node of an output pane.                                         *)
(*   kind : "markup" (what the page's markup holds), "placeholder",        *)
(*          "user" (line 150), "ai" (generated text), "error" (line 128)   *)
(*   by   : the generateAiContent call that wrote it, 0 if none            *)
(*   ref  : the call whose streamContainer is this very node, 0 if none    *)
(*   text : its text                                                       *)
(***************************************************************************)
Elem(kind, by, ref, text) == [kind |-> kind, by |-> by, ref |-> ref, text |-> text]

\* lines 183-185
Placeholders ==
    [t \in Targets |-> <<Elem("placeholder", 0, 0, <<>>)>>]

\* chunk.text of the k-th chunk of a stream: the fragments of a stream are
\* pairwise different, so that their order shows in the text
FragmentChars == <<"1", "2", "3", "4", "5", "6", "7", "8", "9">>
ChunkText(k) == <<FragmentChars[k]>>

\* btn.dataset.genre
Genres == {"noir"}

\* what chatInput.value can hold when a message is sent
ChatValues == {<<>>, <<" ">>, <<"a">>, <<" ", "a", " ">>}

(***************************************************************************)
(* Record of the AI step just taken.                                       *)
(*   op      : "init", "open", "close", "generate", "encoded", "stream",   *)
(*             "chunk", "end" or "catch"                                   *)
(*   gen     : the call concerned, 0 if none                               *)
(*   target  : generate: the displayEl passed                              *)
(*   fetched : the step issued the axios.get of imageUrlToBase64           *)
(*   sent    : the step issued generateContentStream                       *)
(***************************************************************************)
AiCall(op, gen, target, fetched, sent) ==
    [op |-> op, gen |-> gen, target |-> target, fetched |-> fetched, sent |-> sent]

AIInit ==
    /\ currentImageData = NullImage
    /\ epoch = 0
    /\ lightboxShown = FALSE
    /\ panes = [t \in Targets |-> <<Elem("markup", 0, 0, <<>>)>>]
    /\ aiLoaderDisplay = "markup"
    /\ aiClient = FALSE
    /\ gens = <<>>
    /\ lastAi = AiCall("init", 0, "", FALSE, FALSE)

PagInit ==
    /\ currentQuery = <<>>
    /\ gsroffset = 0
    /\ isLoading = FALSE
    /\ hasMore = TRUE
    /\ results = <<>>
    \* the two style.display values come from the page's markup
    /\ noResultsShown \in BOOLEAN
    /\ initialLoaderShown \in BOOLEAN
    /\ domLoaded = FALSE
    /\ requests = <<>>
    /\ pending = {}
    /\ cursorOf = <<>>
    /\ lastCall = NoCall
    /\ prevCall = NoCall

Init == PagInit /\ AIInit

(***************************************************************************)
(* fetchImages, line 233: the condition of the early return.               *)
(***************************************************************************)
\* fetchImages without the isLoading guard
FetchReturnsEarly_NoLoadingCheck(loading, more, query) ==
    ~more \/ query = <<>>

\* fetchImages without the hasMore guard
FetchReturnsEarly_NoMoreCheck(loading, more, query) ==
    loading \/ query = <<>>

FetchReturnsEarly(loading, more, query) ==
    loading \/ ~more \/ query = <<>>

\* the request of lines 237-244
PageRequest(query, offset) == [query |-> query, offset |-> offset]

(***************************************************************************)
(* fetchImages up to its await (lines 232-244), called by the infinite     *)
(* scroll collaborator: infScroll.on('load', fetchImages).                 *)
(***************************************************************************)
fetchImages ==
    \* the model stops issuing requests after MaxRequests of them
    /\ ~FetchReturnsEarly(isLoading, hasMore, currentQuery)
           => Len(requests) < MaxRequests
    /\ IF FetchReturnsEarly(isLoading, hasMore, currentQuery)
       THEN /\ UNCHANGED <<isLoading, requests, pending>>
            /\ lastCall' = Call("loadNextPage", <<>>, 0, FALSE, 0, NoResponse)
       ELSE /\ isLoading' = TRUE
            /\ requests' = Append(requests, PageRequest(currentQuery, gsroffset))
            /\ pending' = pending \cup {Len(requests) + 1}
            /\ lastCall' = Call("loadNextPage", <<>>, 0, FALSE, 1, NoResponse)
    /\ prevCall' = Brief(lastCall)
    /\ UNCHANGED <<currentQuery, gsroffset, hasMore, results, noResultsShown,
                   initialLoaderShown, domLoaded, cursorOf>>
    /\ UNCHANGED aiVars

(***************************************************************************)
(* handleSearch (lines 274-286).                                           *)
(***************************************************************************)
\* line 276: queryStr || searchInput.value.trim()
SearchQuery(queryStr, inputValue) ==
    IF queryStr # <<>> THEN queryStr ELSE Trim(inputValue)

\* handleSearch that only rejects the empty query
SearchIgnored_EmptyOnly(query, current) ==
    query = <<>>

\* line 277: the condition of the early return
SearchIgnored(query, current) ==
    query = <<>> \/ query = current

\* handleSearch that also clears isLoading
ResetState_ClearsLoading(query) ==
    [currentQuery |-> query, gsroffset |-> 0, isLoading |-> FALSE,
     hasMore |-> TRUE]

\* the Query State once lines 279-281 have run, before fetchImages() is called
ResetState(query) ==
    [currentQuery |-> query, gsroffset |-> 0, isLoading |-> isLoading,
     hasMore |-> TRUE]

handleSearch(queryStr, inputValue) ==
    LET query == SearchQuery(queryStr, inputValue)
        s == ResetState(query)
    IN /\ (/\ ~SearchIgnored(query, currentQuery)
           /\ ~FetchReturnsEarly(s.isLoading, s.hasMore, s.currentQuery))
              => Len(requests) < MaxRequests
       /\ IF SearchIgnored(query, currentQuery)
          THEN /\ UNCHANGED <<currentQuery, gsroffset, isLoading, hasMore, results,
                              noResultsShown, initialLoaderShown, requests, pending,
                              cursorOf>>
               /\ lastCall' = Call("search", query, 0, FALSE, 0, NoResponse)
          ELSE /\ currentQuery' = s.currentQuery
               /\ gsroffset' = s.gsroffset
               /\ cursorOf' = <<>>
               /\ hasMore' = s.hasMore
               /\ results' = <<>>
               /\ noResultsShown' = FALSE
               /\ initialLoaderShown' = TRUE
               \* line 285: fetchImages() runs up to its await
               /\ IF FetchReturnsEarly(s.isLoading, s.hasMore, s.currentQuery)
                  THEN /\ UNCHANGED <<isLoading, requests, pending>>
                       /\ lastCall' = Call("search", query, 0, TRUE, 0, NoResponse)
                  ELSE /\ isLoading' = TRUE
                       /\ requests' = Append(requests,
                                             PageRequest(s.currentQuery, s.gsroffset))
                       /\ pending' = pending \cup {Len(requests) + 1}
                       /\ lastCall' = Call("search", query, 0, TRUE, 1, NoResponse)
       /\ prevCall' = Brief(lastCall)
       /\ UNCHANGED aiVars

(***************************************************************************)
(* fetchImages from its await to its end (lines 246-271), run when the     *)
(* request settles.  It reads the module-level gsroffset and hasMore as    *)
(* they are at that moment.                                                *)
(***************************************************************************)
\* line 248
NoResultSet(resp, offset) ==
    offset = 0 /\ ~resp.hasQuery

\* control reaches the catch block of line 265
Throws(resp, offset) ==
    \/ resp.kind = "error"
    \/ /\ ~NoResultSet(resp, offset)
       /\ resp.hasQuery
       /\ resp.bad # {}

\* a catch block that does not stop pagination
HasMoreAfter_NoCatch(resp, offset, more) ==
    IF resp.kind = "error" THEN more
    ELSE IF NoResultSet(resp, offset) THEN FALSE
    ELSE IF resp.cont # 0 THEN more
    ELSE FALSE

\* hasMore after lines 248-267
HasMoreAfter(resp, offset, more) ==
    IF Throws(resp, offset) THEN FALSE
    ELSE IF NoResultSet(resp, offset) THEN FALSE
    ELSE IF resp.cont # 0 THEN more
    ELSE FALSE

\* gsroffset after lines 259-263
OffsetAfter(resp, offset) ==
    IF Throws(resp, offset) THEN offset
    ELSE IF resp.cont # 0 THEN resp.cont
    ELSE offset

\* the cards appended by lines 252-256
Appended(resp, offset, req) ==
    IF Throws(resp, offset) \/ NoResultSet(resp, offset) THEN <<>>
    ELSE Items(resp.pages, req)

fetchSettled(req, resp) ==
    /\ req \in pending
    /\ pending' = pending \ {req}
    /\ initialLoaderShown' = FALSE
    /\ noResultsShown' =
           IF ~Throws(resp, gsroffset) /\ NoResultSet(resp, gsroffset)
           THEN TRUE ELSE noResultsShown
    /\ results' = results \o Appended(resp, gsroffset, req)
    /\ gsroffset' = OffsetAfter(resp, gsroffset)
    /\ cursorOf' = IF ~Throws(resp, gsroffset) /\ resp.cont # 0
                   THEN requests[req].query ELSE cursorOf
    /\ hasMore' = HasMoreAfter(resp, gsroffset, hasMore)
    /\ isLoading' = FALSE
    /\ lastCall' = Call("settle", requests[req].query, requests[req].offset,
                        FALSE, 0, resp)
    /\ prevCall' = Brief(lastCall)
    /\ UNCHANGED <<currentQuery, domLoaded, requests>>
    /\ UNCHANGED aiVars

(***************************************************************************)
(* The events of the page.                                                 *)
(***************************************************************************)
\* lines 306-308
DOMContentLoaded ==
    /\ ~domLoaded
    /\ domLoaded' = TRUE
    /\ handleSearch(InitialQuery, <<>>)

\* line 289: searchForm 'submit'; handleSearch receives the event only
Submit ==
    /\ \E inputValue \in InputValues : handleSearch(<<>>, inputValue)
    /\ UNCHANGED domLoaded

\* line 290: infScroll 'load'
InfScrollLoad == fetchImages

\* the pending axios.get of line 237 resolves or rejects
Settle ==
    \E req \in pending : \E resp \in Responses : fetchSettled(req, resp)

Next ==
    \/ DOMContentLoaded
    \/ Submit
    \/ InfScrollLoad
    \/ Settle

Spec == Init /\ [][Next]_vars

(***************************************************************************)
(* AI assist controller: openLightbox and closeLightbox (lines 172-195).   *)
(***************************************************************************)
openLightbox(card) ==
    /\ epoch < MaxEpochs
    /\ epoch' = epoch + 1
    /\ currentImageData' = ImageData(card)
    /\ panes' = Placeholders
    /\ lightboxShown' = TRUE
    /\ lastAi' = AiCall("open", 0, "", FALSE, FALSE)
    /\ UNCHANGED <<aiLoaderDisplay, aiClient, gens>>
    /\ UNCHANGED pagVars

closeLightbox ==
    /\ epoch < MaxEpochs
    /\ epoch' = epoch + 1
    /\ lightboxShown' = FALSE
    /\ currentImageData' = NullImage
    /\ lastAi' = AiCall("close", 0, "", FALSE, FALSE)
    /\ UNCHANGED <<panes, aiLoaderDisplay, aiClient, gens>>
    /\ UNCHANGED pagVars

(***************************************************************************)
(* generateAiContent up to its first await (lines 88-112).                 *)
(***************************************************************************)
\* generateAiContent without the guard of line 89
GenerateReturnsEarly_Never(image) ==
    FALSE

\* line 89
GenerateReturnsEarly(image) ==
    image = NullImage

\* line 96
NeedsEncoding(image) ==
    image.base64 = 0

\* the call as it stands at its first await: of imageUrlToBase64 (line 97)
\* when the encoding is not cached, else of generateContentStream (line 109)
NewGen(prompt, displayEl, isChat, image, now) ==
    [target |-> displayEl, isChat |-> isChat, prompt |-> prompt,
     pc |-> IF NeedsEncoding(image) THEN "encoding" ELSE "requesting",
     fetchUrl |-> IF NeedsEncoding(image) THEN image.url ELSE 0,
     image |-> IF NeedsEncoding(image) THEN 0 ELSE image.base64,
     fullText |-> <<>>, chunks |-> <<>>, epoch |-> now, failed |-> FALSE,
     overlap |-> FALSE]

\* a call has not returned yet
Running(g) == g.pc # "done"

\* the calls so far and the new one; overlap records that a call ran while
\* another call with the same displayEl was running
WithNewGen(all, new) ==
    LET busy == \E i \in 1..Len(all) : Running(all[i]) /\ all[i].target = new.target
    IN [i \in 1..Len(all) |->
           IF Running(all[i]) /\ all[i].target = new.target
           THEN [all[i] EXCEPT !.overlap = TRUE] ELSE all[i]]
       \o <<[new EXCEPT !.overlap = busy]>>

\* panesNow: the panes as the caller leaves them
generateAiContent(prompt, displayEl, isChat, panesNow) ==
    /\ IF GenerateReturnsEarly(currentImageData)
       THEN /\ panes' = panesNow
            /\ UNCHANGED <<aiLoaderDisplay, aiClient, gens>>
            /\ lastAi' = AiCall("generate", 0, displayEl, FALSE, FALSE)
       ELSE /\ Len(gens) < MaxGens
            /\ aiLoaderDisplay' = "flex"
            /\ panes' = [panesNow EXCEPT ![displayEl] = IF isChat THEN @ ELSE <<>>]
            /\ aiClient' = TRUE
            /\ gens' = WithNewGen(gens, NewGen(prompt, displayEl, isChat,
                                               currentImageData, epoch))
            /\ lastAi' = AiCall("generate", Len(gens) + 1, displayEl,
                                NeedsEncoding(currentImageData),
                                ~NeedsEncoding(currentImageData))
    /\ UNCHANGED <<currentImageData, epoch, lightboxShown>>
    /\ UNCHANGED pagVars

\* lines 134-139
handleGenreClick(genre) ==
    generateAiContent([kind |-> "story", arg |-> <<genre, currentImageData.title>>],
                      "storyDisplay", FALSE, panes)

\* lines 141-144
handleAnalyzeClick ==
    generateAiContent([kind |-> "analysis", arg |-> <<>>],
                      "analysisDisplay", FALSE, panes)

\* lines 146-158
handleChatSend(value) ==
    LET query == Trim(value)
    IN IF query = <<>>
       THEN /\ lastAi' = AiCall("chat", 0, "chatHistory", FALSE, FALSE)
            /\ UNCHANGED <<currentImageData, epoch, lightboxShown, panes,
                           aiLoaderDisplay, aiClient, gens>>
            /\ UNCHANGED pagVars
       \* the model stops sending messages after MaxGens of them
       ELSE /\ Cardinality({i \in 1..Len(panes["chatHistory"]) :
                               panes["chatHistory"][i].kind = "user"}) < MaxGens
            /\ generateAiContent(
                   [kind |-> "chat", arg |-> query], "chatHistory", TRUE,
                   [panes EXCEPT !["chatHistory"] =
                        Append(@, Elem("user", 0, 0, query))])

(***************************************************************************)
(* generateAiContent after its awaits (lines 97-131).                      *)
(***************************************************************************)
\* a catch block that reports nothing
CatchWrite_Silent(pane, gen) ==
    pane

\* displayEl.innerHTML += ...: the children are parsed anew, so the nodes a
\* running call holds are no longer in the pane
CatchWrite(pane, gen) ==
    [i \in 1..Len(pane) |-> [pane[i] EXCEPT !.ref = 0]]
        \o <<Elem("error", gen, 0, <<>>)>>

\* lines 126-131
Catch(gen) ==
    /\ panes' = [panes EXCEPT ![gens[gen].target] = CatchWrite(@, gen)]
    /\ aiLoaderDisplay' = "none"
    /\ gens' = [gens EXCEPT ![gen].pc = "done", ![gen].failed = TRUE]
    /\ lastAi' = AiCall("catch", gen, gens[gen].target, FALSE, FALSE)

\* lines 97-112: imageUrlToBase64 settles; currentImageData is read again
encodingSettled(gen, ok) ==
    /\ gens[gen].pc = "encoding"
    /\ IF ok /\ currentImageData # NullImage
       THEN /\ currentImageData' =
                   [currentImageData EXCEPT !.mimeType = gens[gen].fetchUrl,
                                            !.base64 = gens[gen].fetchUrl]
            /\ gens' = [gens EXCEPT ![gen].pc = "requesting",
                                    ![gen].image = gens[gen].fetchUrl]
            /\ lastAi' = AiCall("encoded", gen, gens[gen].target, FALSE, TRUE)
            /\ UNCHANGED <<panes, aiLoaderDisplay>>
       ELSE /\ Catch(gen)
            /\ UNCHANGED currentImageData
    /\ UNCHANGED <<epoch, lightboxShown, aiClient>>
    /\ UNCHANGED pagVars

\* lines 109-119: generateContentStream settles
requestSettled(gen, ok) ==
    /\ gens[gen].pc = "requesting"
    /\ IF ok
       THEN /\ panes' = [panes EXCEPT ![gens[gen].target] =
                            IF gens[gen].isChat
                            THEN Append(@, Elem("ai", gen, gen, <<>>)) ELSE @]
            /\ gens' = [gens EXCEPT ![gen].pc = "streaming"]
            /\ lastAi' = AiCall("stream", gen, gens[gen].target, FALSE, FALSE)
            /\ UNCHANGED aiLoaderDisplay
       ELSE Catch(gen)
    /\ UNCHANGED <<currentImageData, epoch, lightboxShown, aiClient>>
    /\ UNCHANGED pagVars

\* fullText = chunk.text + fullText
AddChunk_Prepend(fullText, text) ==
    text \o fullText

\* line 122
AddChunk(fullText, text) ==
    fullText \o text

\* line 123: streamContainer.innerText = fullText
SetInnerText(pane, gen, isChat, text) ==
    IF isChat
    THEN [i \in 1..Len(pane) |->
             IF pane[i].ref = gen THEN [pane[i] EXCEPT !.text = text] ELSE pane[i]]
    ELSE <<Elem("ai", gen, 0, text)>>

\* lines 121-125: one iteration of the for await
chunkArrived(gen) ==
    LET text == ChunkText(Len(gens[gen].chunks) + 1) IN
    /\ gens[gen].pc = "streaming"
    /\ Len(gens[gen].chunks) < MaxChunks
    /\ gens' = [gens EXCEPT ![gen].fullText = AddChunk(@, text),
                            ![gen].chunks = Append(@, text)]
    /\ panes' = [panes EXCEPT ![gens[gen].target] =
                     SetInnerText(@, gen, gens[gen].isChat,
                                  AddChunk(gens[gen].fullText, text))]
    /\ lastAi' = AiCall("chunk", gen, gens[gen].target, FALSE, FALSE)
    /\ UNCHANGED <<currentImageData, epoch, lightboxShown, aiLoaderDisplay, aiClient>>
    /\ UNCHANGED pagVars

\* the stream ends (lines 125, 129-131) or throws (lines 126-131)
streamSettled(gen, ok) ==
    /\ gens[gen].pc = "streaming"
    /\ IF ok
       THEN /\ gens' = [gens EXCEPT ![gen].pc = "done"]
            /\ aiLoaderDisplay' = "none"
            /\ lastAi' = AiCall("end", gen, gens[gen].target, FALSE, FALSE)
            /\ UNCHANGED panes
       ELSE Catch(gen)
    /\ UNCHANGED <<currentImageData, epoch, lightboxShown, aiClient>>
    /\ UNCHANGED pagVars

(***************************************************************************)
(* The events of the viewer.                                               *)
(***************************************************************************)
\* line 213: a card of the results container is clicked
CardClick ==
    \E i \in 1..Len(results) : openLightbox(results[i])

\* lines 291-292, 301-303: the close button, the backdrop or Escape; all
\* three belong to the viewer that is showing
CloseLightbox ==
    lightboxShown /\ closeLightbox

\* line 294
GenreClick ==
    \E genre \in Genres : handleGenreClick(genre)

\* line 295
AnalyzeClick == handleAnalyzeClick

\* lines 296-299
ChatSend ==
    \E value \in ChatValues : handleChatSend(value)

EncodingSettles ==
    \E gen \in 1..Len(gens) : \E ok \in BOOLEAN : encodingSettled(gen, ok)

RequestSettles ==
    \E gen \in 1..Len(gens) : \E ok \in BOOLEAN : requestSettled(gen, ok)

ChunkArrives ==
    \E gen \in 1..Len(gens) : chunkArrived(gen)

StreamSettles ==
    \E gen \in 1..Len(gens) : \E ok \in BOOLEAN : streamSettled(gen, ok)

(***************************************************************************)
(* The viewer is used once the first page of the initial search is on      *)
(* display: the state handleSearch and fetchImages leave when the request  *)
(* for InitialQuery delivers as many pages as the viewer can be opened     *)
(* times, and a continuation.                                              *)
(***************************************************************************)
FirstPage ==
    [kind |-> "ok", hasQuery |-> TRUE, pages |-> 1..MaxEpochs, bad |-> {},
     cont |-> BATCH_SIZE]

PagInitAI ==
    /\ currentQuery = InitialQuery
    /\ gsroffset = OffsetAfter(FirstPage, 0)
    /\ isLoading = FALSE
    /\ hasMore = HasMoreAfter(FirstPage, 0, TRUE)
    /\ results = Appended(FirstPage, 0, 1)
    /\ noResultsShown = FALSE
    /\ initialLoaderShown = FALSE
    /\ domLoaded = TRUE
    /\ requests = <<PageRequest(InitialQuery, 0)>>
    /\ pending = {}
    /\ cursorOf = InitialQuery
    /\ lastCall = Call("settle", InitialQuery, 0, FALSE, 0, FirstPage)
    /\ prevCall = Brief(Call("search", InitialQuery, 0, TRUE, 1, NoResponse))

InitAI == PagInitAI /\ AIInit

NextAI ==
    \/ CardClick
    \/ CloseLightbox
    \/ GenreClick
    \/ AnalyzeClick
    \/ ChatSend
    \/ EncodingSettles
    \/ RequestSettles
    \/ ChunkArrives
    \/ StreamSettles

SpecAI == InitAI /\ [][NextAI]_vars

(***************************************************************************)
(* Properties of the pagination controller.                                *)
(***************************************************************************)
\* the step is a search(Q) with Q non-empty and different from the current query
NewSearchStep ==
    /\ lastCall'.op = "search"
    /\ lastCall'.query # <<>>
    /\ lastCall'.query # currentQuery

\* the step is a settlement of a page request that failed: the request was
\* rejected, or a page of the response cannot be rendered
Failed(resp) ==
    resp.kind = "error" \/ resp.bad # {}

\* C1: every search(Q) with Q non-empty and different from the current query
\* clears the rendered results and issues a page request for Q at offset 0.
C1_NewSearchRequestsFirstPage ==
    [][NewSearchStep =>
          /\ results' = <<>>
          /\ requests' = Append(requests, PageRequest(lastCall'.query, 0))
          /\ pending' = pending \cup {Len(requests')}]_vars

\* C2: every new search resets the Query State to (query, 0, false, true)
\* before the first page of the query is loaded, whatever the state before.
C2_NewSearchResetsQueryState ==
    [][NewSearchStep =>
          /\ ResetState(lastCall'.query) =
                 [currentQuery |-> lastCall'.query, gsroffset |-> 0,
                  isLoading |-> FALSE, hasMore |-> TRUE]
          /\ currentQuery' = lastCall'.query
          /\ gsroffset' = 0
          /\ hasMore' = TRUE]_vars

\* C3: search(query) with an empty query or the current query changes neither
\* the Query State nor what is rendered, and issues no page request.
C3_IgnoredSearchIsNoOp ==
    [][(/\ lastCall'.op = "search"
        /\ (lastCall'.query = <<>> \/ lastCall'.query = currentQuery))
       => UNCHANGED <<currentQuery, gsroffset, isLoading, hasMore, results,
                      noResultsShown, initialLoaderShown, requests, pending>>]_vars

\* an empty submission followed by a resubmission of the query on display
C3_Witness ==
    /\ prevCall.op = "search"
    /\ prevCall.query = <<>>
    /\ lastCall.op = "search"
    /\ lastCall.query = currentQuery
    /\ currentQuery # <<>>
    /\ results # <<>>
    /\ Len(requests) = 1

\* C4: search(Q) issued twice in a row, Q non-empty and different from the
\* query current at the first call, performs exactly one page fetch in total.
C4_SearchTwiceFetchesOnce ==
    (/\ prevCall.op = "search"
     /\ prevCall.fresh
     /\ lastCall.op = "search"
     /\ lastCall.query = prevCall.query)
    => prevCall.issued + lastCall.issued = 1

\* C5: loadNextPage() called while isLoading, or with hasMore false, or with
\* no query set, issues no request and changes nothing.
C5_GuardedLoadNextPageIsNoOp ==
    [][(/\ lastCall'.op = "loadNextPage"
        /\ (isLoading \/ ~hasMore \/ currentQuery = <<>>))
       => UNCHANGED <<currentQuery, gsroffset, isLoading, hasMore, results,
                      noResultsShown, initialLoaderShown, requests, pending>>]_vars

\* a second scroll signal while the page asked for by the first is in flight
C5_Witness ==
    /\ prevCall.op = "loadNextPage"
    /\ prevCall.issued = 1
    /\ lastCall.op = "loadNextPage"
    /\ lastCall.issued = 0
    /\ isLoading
    /\ hasMore
    /\ pending # {}

\* C6: at most one page fetch is in flight, and isLoading is true exactly
\* when one is.
C6_OneFetchInFlight ==
    /\ Cardinality(pending) <= 1
    /\ isLoading <=> pending # {}

\* a new search was submitted while a page was in flight, and that page has
\* now failed
C6_Witness ==
    /\ lastCall.op = "settle"
    /\ lastCall.resp.kind = "error"
    /\ lastCall.query # currentQuery
    /\ prevCall.op = "search"
    /\ prevCall.fresh
    /\ prevCall.issued = 0
    /\ ~isLoading
    /\ pending = {}

\* C7: once hasMore is false it stays false, and no page request is issued,
\* until a search with a non-empty query different from the current one.
C7_ExhaustedUntilNewSearch ==
    [][(~hasMore /\ ~NewSearchStep) => (~hasMore' /\ requests' = requests)]_vars

\* a scroll signal after pagination has ended, for a query that had results
C7_Witness ==
    /\ ~hasMore
    /\ prevCall.op = "settle"
    /\ lastCall.op = "loadNextPage"
    /\ lastCall.issued = 0
    /\ currentQuery # <<>>
    /\ results # <<>>
    /\ pending = {}

\* the response carries n renderable results and a continuation token
ResultsWithToken(resp) ==
    /\ resp.kind = "ok"
    /\ resp.hasQuery
    /\ resp.bad = {}
    /\ resp.cont # 0

\* C8: when the fetch started by search(Q) completes with n results and token
\* T, n cards are appended in the order returned, cursor = T and hasMore holds;
\* the next loadNextPage() issues exactly one request, for Q at offset T.
C8_TokenDrivesNextPage ==
    [][/\ (/\ lastCall'.op = "settle"
           /\ lastCall'.offset = 0
           /\ ResultsWithToken(lastCall'.resp))
          => /\ Len(results') = Len(results) + Cardinality(lastCall'.resp.pages)
             /\ \A i \in 1..Len(results) : results'[i] = results[i]
             /\ \A i, j \in (Len(results) + 1)..Len(results') :
                    i < j => results'[i].page < results'[j].page
             /\ {results'[i].page : i \in (Len(results) + 1)..Len(results')}
                    = lastCall'.resp.pages
             /\ gsroffset' = lastCall'.resp.cont
             /\ hasMore'
       /\ (/\ lastCall.op = "settle"
           /\ lastCall.offset = 0
           /\ ResultsWithToken(lastCall.resp)
           /\ lastCall'.op = "loadNextPage")
          => requests' = Append(requests,
                                PageRequest(lastCall.query, lastCall.resp.cont))]_vars

\* the step signals "no results"
SignalsNoResults ==
    /\ lastCall'.op = "settle"
    /\ ~noResultsShown
    /\ noResultsShown'

\* C9: "no results" is signalled, with hasMore false and no card rendered,
\* exactly when the settled request was issued at offset 0 and its response
\* has no result set; never for a request issued at another offset.
C9_NoResultsOnlyForFirstPage ==
    [][lastCall'.op = "settle" =>
          /\ SignalsNoResults <=>
                 (/\ lastCall'.offset = 0
                  /\ lastCall'.resp.kind = "ok"
                  /\ ~lastCall'.resp.hasQuery)
          /\ SignalsNoResults => (~hasMore' /\ results' = <<>>)]_vars

\* C10: when a page fetch fails, hasMore becomes false, the cursor and the
\* rendered cards are unchanged and no request is issued, neither by the
\* failure itself nor by the loadNextPage() that follows it.
C10_FailureHaltsPagination ==
    [][/\ (lastCall'.op = "settle" /\ Failed(lastCall'.resp))
          => /\ ~hasMore'
             /\ gsroffset' = gsroffset
             /\ results' = results
             /\ requests' = requests
             /\ pending' \subseteq pending
       /\ (/\ lastCall.op = "settle"
           /\ Failed(lastCall.resp)
           /\ lastCall'.op = "loadNextPage")
          => (requests' = requests /\ pending' = pending)]_vars

\* a second page that cannot be rendered, below the cards of the first
C10_Witness ==
    /\ lastCall.op = "settle"
    /\ lastCall.resp.bad # {}
    /\ lastCall.resp.cont # 0
    /\ lastCall.offset # 0
    /\ gsroffset = lastCall.offset
    /\ ~hasMore
    /\ results # <<>>

(***************************************************************************)
(* Properties of the AI assist controller, and of both controllers under   *)
(* interleaving.                                                           *)
(***************************************************************************)
\* C11: generate() called while no image is selected issues no encoding fetch
\* and no generation request and changes no pane and no controller state (the
\* message of the user that handleChatSend appends before it calls generate
\* is not generate's).
C11_GenerateWithoutImageIsNoOp ==
    [][(lastAi'.op = "generate" /\ currentImageData = NullImage) =>
          /\ gens' = gens
          /\ ~lastAi'.fetched
          /\ ~lastAi'.sent
          /\ UNCHANGED <<currentImageData, epoch, lightboxShown, aiLoaderDisplay,
                         aiClient>>
          /\ panes'["storyDisplay"] = panes["storyDisplay"]
          /\ panes'["analysisDisplay"] = panes["analysisDisplay"]
          /\ \/ panes'["chatHistory"] = panes["chatHistory"]
             \/ /\ lastAi'.target = "chatHistory"
                /\ Len(panes'["chatHistory"]) = Len(panes["chatHistory"]) + 1
                /\ SubSeq(panes'["chatHistory"], 1, Len(panes["chatHistory"]))
                       = panes["chatHistory"]
                /\ panes'["chatHistory"][Len(panes'["chatHistory"])].kind = "user"]_vars

\* a story asked for after the viewer was closed on a running generation
C11_Witness ==
    /\ lastAi.op = "generate"
    /\ lastAi.gen = 0
    /\ lastAi.target = "storyDisplay"
    /\ currentImageData = NullImage
    /\ ~lightboxShown
    /\ epoch = 2
    /\ Len(gens) = 1
    /\ Running(gens[1])

\* C12: between a selectImage and the next selectImage / clearSelection the
\* image-encoding fetch is issued at most once.
C12_OneEncodingFetchPerSelection ==
    \A e \in 1..epoch :
        Cardinality({g \in 1..Len(gens) :
                        gens[g].fetchUrl # 0 /\ gens[g].epoch = e}) <= 1

RECURSIVE Flatten(_)
Flatten(texts) ==
    IF texts = <<>> THEN <<>> ELSE Head(texts) \o Flatten(Tail(texts))

IsAi(elem) == elem.kind = "ai"

\* the call g was the only one running against its target all the time it
\* ran, the selection is the one it started under, and no later call has
\* used the target
Undisturbed(g) ==
    /\ ~gens[g].overlap
    /\ gens[g].epoch = epoch
    /\ currentImageData # NullImage
    /\ \A h \in (g + 1)..Len(gens) : gens[h].target # gens[g].target

\* the generated text the target shows for the call g
GeneratedBy(g) ==
    IF gens[g].isChat
    THEN SelectSeq(panes[gens[g].target], LAMBDA e : IsAi(e) /\ e.by = g)
    ELSE SelectSeq(panes[gens[g].target], IsAi)

\* C13: a call that is the only one running against its target, under an
\* unchanged selection, shows after its k-th fragment exactly c1 ... ck,
\* concatenated in arrival order, and ends with c1 ... cn.
C13_FragmentsInArrivalOrder ==
    \A g \in 1..Len(gens) :
        Undisturbed(g) =>
            /\ Len(GeneratedBy(g)) <= 1
            /\ gens[g].chunks # <<>> => Len(GeneratedBy(g)) = 1
            /\ \A i \in 1..Len(GeneratedBy(g)) :
                   /\ GeneratedBy(g)[i].by = g
                   /\ GeneratedBy(g)[i].text = Flatten(gens[g].chunks)

\* a story whose stream delivered two fragments and ended, while an analysis
\* was running too
C13_Witness ==
    /\ Len(gens) = 2
    /\ Undisturbed(1)
    /\ gens[1].target = "storyDisplay"
    /\ gens[1].pc = "done"
    /\ ~gens[1].failed
    /\ Len(gens[1].chunks) = 2
    /\ panes["storyDisplay"] = <<Elem("ai", 1, 0, <<"1", "2">>)>>
    /\ gens[2].target = "analysisDisplay"
    /\ Running(gens[2])
    /\ lastAi.op = "end"

\* C14: a failed generation writes an error indicator into the target of
\* that call and changes neither the pagination state nor the other panes.
C14_FailureIsReportedInItsTarget ==
    [][lastAi'.op = "catch" =>
          LET g == lastAi'.gen
              t == gens[g].target
          IN /\ Len(panes'[t]) = Len(panes[t]) + 1
             /\ panes'[t][Len(panes'[t])].kind = "error"
             /\ panes'[t][Len(panes'[t])].by = g
             /\ \A u \in Targets \ {t} : panes'[u] = panes[u]
             /\ UNCHANGED <<currentQuery, gsroffset, isLoading, hasMore, results,
                            noResultsShown, requests, pending>>]_vars

\* an analysis that failed below a story that was generated
C14_Witness ==
    /\ lastAi.op = "catch"
    /\ gens[lastAi.gen].target = "analysisDisplay"
    /\ gens[lastAi.gen].failed
    /\ panes["analysisDisplay"] = <<Elem("error", lastAi.gen, 0, <<>>)>>
    /\ \E i \in 1..Len(panes["storyDisplay"]) :
           /\ panes["storyDisplay"][i].kind = "ai"
           /\ panes["storyDisplay"][i].text # <<>>
    /\ results # <<>>
    /\ currentQuery # <<>>

\* C15: no two generate calls are at the same time writing fragments to the
\* same output target.
C15_OneStreamPerTarget ==
    \A t \in Targets :
        Cardinality({g \in 1..Len(gens) :
                        gens[g].target = t /\ gens[g].pc = "streaming"}) <= 1

\* the encoding of the selected image is cached
Cached == currentImageData # NullImage /\ currentImageData.base64 # 0

\* C16: within a selection the encoding becomes cached only through an
\* encoding fetch started during that selection, and once cached it stays
\* cached until selectImage or clearSelection.  (A fetch that fails leaves the
\* encoding absent; that is not counted as a step backwards.)
C16_EncodingStateMonotonic ==
    [][/\ (~Cached /\ Cached') =>
             /\ lastAi'.op = "encoded"
             /\ gens[lastAi'.gen].epoch = epoch'
       /\ (Cached /\ ~Cached') => lastAi'.op \in {"open", "close"}
       /\ (Cached /\ epoch' = epoch) => Cached']_vars

\* C17: every card on display was rendered from a response to a request for
\* the current query.
C17_CardsBelongToCurrentQuery ==
    \A i \in 1..Len(results) : requests[results[i].req].query = currentQuery

\* C18: a cached encoding of the selected image was fetched from the url of
\* that image, and every generation request carries the image selected when
\* it is sent.
C18_EncodingIsOfSelectedImage ==
    /\ Cached => currentImageData.base64 = currentImageData.url
    /\ \A g \in 1..Len(gens) :
           (gens[g].pc = "requesting" /\ gens[g].epoch = epoch)
               => gens[g].image = currentImageData.url

\* C19: every page request carries the current query and an offset that is 0
\* or the continuation token of the latest response to a request for that
\* same query.
C19_OffsetBelongsToQuery ==
    [][Len(requests') > Len(requests) =>
          LET r == requests'[Len(requests')]
          IN /\ r.query = currentQuery'
             /\ \/ r.offset = 0
                \/ (r.offset = gsroffset /\ cursorOf = r.query)]_vars

\* C20: while an image is selected, the generated texts and error messages in
\* the panes come from generate calls started under that selection.
C20_PanesHoldOnlyCurrentSelection ==
    currentImageData # NullImage =>
        \A t \in Targets : \A i \in 1..Len(panes[t]) :
            panes[t][i].kind \in {"ai", "error"}
                => gens[panes[t][i].by].epoch = epoch

====
